---------------------------- MODULE Spec2Model ----------------------------
(***************************************************************************)
(* A model of the Dilithium tweak code of kyber-dilithium-tweaks:          *)
(*                                                                         *)
(*   - poly_challenge_sha3 and poly_challenge_sha3_streaming               *)
(*     (dilithium/src/challenge_sha3.c), the FixedDigest generator;        *)
(*   - poly_challenge_expanded and poly_challenge_expanded_tau_adjustable  *)
(*     (challenge_expanded.c), the ExpandedRange generator;                *)
(*   - the rejection policies of Tweak 3 (rejection_tweaked.h,             *)
(*     configs/config4_rejection.h, params_tweaked.h) and the signing loop *)
(*     that consults them;                                                 *)
(*   - the parameter configuration: the parameter headers, the overrides   *)
(*     and validation checks of params_tweaked.h, the derived sizes;       *)
(*   - the encryption side: ciphertext size, compression codec and         *)
(*     centered-binomial noise sampler;                                    *)
(*   - the scripts: switch_config.sh and run_security.sh (Kyber) and       *)
(*     benchmark_all.sh (Dilithium).                                       *)
(*                                                                         *)
(* The hash primitives (SHA3-256 through OpenSSL, SHAKE256) are external   *)
(* collaborators.  They are modelled as a memoising oracle: the first time *)
(* an input is hashed its digest is chosen nondeterministically from a     *)
(* bounded family of digests, and every later hash of the same input gives *)
(* the same digest.                                                        *)
(***************************************************************************)
EXTENDS Integers, Naturals, Sequences, FiniteSets, TLC

VARIABLES
    gen,        \* the generator that is executing or has last returned
    pc,         \* "idle" | "sample" | "returned"
    seed,       \* the seed argument of the current call
    c,          \* the caller's output polynomial c->coeffs[0..N-1]
    buf,        \* the byte buffer the position bytes are read from
    pos,        \* read position in buf
    i,          \* target index of the current placement
    signs,      \* the 64-bit sign register, bit 0 first
    j,          \* streaming: current hash iteration; expanded: blocks squeezed
    oracle,     \* digests handed out so far, by hash input
    bufInputs,  \* per digest block in buf: the hash input it is the digest of
    status,     \* "none" | "ok" | "alloc_failed": how the last call ended
    calls,      \* number of calls made
    firstOut,   \* per generator and seed: c as left by the first returned call
    lastField,  \* expanded: the 3-bit field consumed by the last placement
    lastB,      \* the position written by the last placement
    placed,     \* number of placements done by the current call
    drawn,      \* number of position bytes the current call has drawn
    okRun,      \* per generator: the first call that returned after success
    tau,        \* the weight the current call was asked for (TAU or argument)
    shifted,    \* bits shifted out of the sign register since it was loaded
    rej,        \* the state of the signing attempt (rejection policy)
    cfg,        \* the parameter configuration being preprocessed and compiled
    kyb,        \* the encryption-side computation (compression, noise)
    sh          \* the files and the progress of the shell script being run

genVars == <<gen, pc, seed, c, buf, pos, i, signs, j, oracle, bufInputs,
             status, calls, firstOut, lastField, lastB, placed, drawn, okRun,
             tau, shifted>>
vars == <<genVars, rej, cfg, kyb, sh>>

----------------------------------------------------------------------------
(* Program constants *)

\* #define N 256
N == 256
\* #define TAU 50 (MODIFIED_CHALLENGE_BOUNDS)
TAU_CHALLENGE == 50
\* uint8_t buf[SHA3_TOTAL_BYTES];  // 128 bytes = 4 * 32
SHA3_ITERATIONS == 4
SHA3_OUTPUT_BYTES == 32
SHA3_TOTAL_BYTES == SHA3_ITERATIONS * SHA3_OUTPUT_BYTES
\* uint8_t buf[SHAKE256_RATE]; the rate of SHAKE256 is 136 bytes
SHAKE256_RATE == 136

\* #define GAMMA1 (1 << 17)
GAMMA1 == 131072
\* #define Q 8380417 and #define GAMMA2 ((Q-1)/88)
Q == 8380417
GAMMA2 == (Q - 1) \div 88
\* #define BETA 78 (baseline) and #define BETA 100 (Tweak 3)
BETA_BASELINE == 78
BETA_RELAXED == 100

(* Bounds of the model *)

\* The challenge weight.  The configurations use 39 and 50; the model runs
\* the same loop "for (i = N - TAU; i < N; ++i)" with a small weight.
TAU == 2
\* The challenge weight of the expanded-challenge configuration (50 in
\* params_tweaked.h).  It is large enough for the loop to pass a target
\* index that is a multiple of 21, where the sign register is reloaded.
TAU_EXPANDED == 4
\* Number of generator calls in one behaviour.
MaxCalls == 2
\* Candidate norms are taken within this distance of each rejection bound.
Slack == 2
\* Number of blocks one call may squeeze out of SHAKE256 after the first.
MaxSqueezes == 2
\* The draws of one call are counted up to this number: one pass over the
\* 120 position bytes of the SHA3 buffer and the first draws after it.
MaxDrawn == 140
\* The iteration ceiling of the signing loop: the number of candidates one
\* signing call may check.
MaxIterations == 2
\* number of invocations of a script in one behaviour
MaxRuns == 3

\* The seed is an opaque byte string; its digests are what the oracle chooses.
Seeds == {"seed"}
\* A second seed, for the runs that compare two seeds.
AllSeeds == {"seed", "seed2"}

\* The byte values digests are made of: 1 is accepted as a position for
\* every target index and its bits give both signs; N-1 (0xFF) is accepted
\* only for the last target index.
ByteVals == {1, N - 1}
\* The last byte of a digest: 2, another position accepted for every target
\* index, or N-1.
LastVals == {2, N - 1}

\* A digest block is described by the byte that fills it and its last byte.
Patterns == [fill : ByteVals, last : LastVals]

\* The bytes of a digest block of the given length.
BlockBytes(p, len) == [k \in 0..(len - 1) |-> IF k = len - 1 THEN p.last ELSE p.fill]

\* Coefficient value left in memory the generator has not written.
StaleCoeff == 7

ZeroPoly == [k \in 0..(N - 1) |-> 0]
StalePoly == [k \in 0..(N - 1) |-> StaleCoeff]
NoPoly == <<>>

----------------------------------------------------------------------------
(* 64-bit unsigned arithmetic and the narrowing to int32_t coefficients.   *)
(* A uint64_t value is four 16-bit limbs, least significant first.         *)

Limb == 65536

U64(n) == <<n % Limb, 0, 0, 0>>

\* a - b modulo 2^64
U64Sub(a, b) ==
    LET d1 == a[1] - b[1]
        w1 == IF d1 < 0 THEN 1 ELSE 0
        d2 == a[2] - b[2] - w1
        w2 == IF d2 < 0 THEN 1 ELSE 0
        d3 == a[3] - b[3] - w2
        w3 == IF d3 < 0 THEN 1 ELSE 0
        d4 == a[4] - b[4] - w3
    IN  <<d1 % Limb, d2 % Limb, d3 % Limb, d4 % Limb>>

\* (int32_t) of a uint64_t: the low 32 bits, read as two's complement
ToInt32(u) ==
    IF u[2] >= Limb \div 2 THEN (u[2] - Limb) * Limb + u[1]
                           ELSE u[2] * Limb + u[1]

\* The sign register: bit k of the register is signs[k], k = 0..63.
Pow2(n) == IF n = 0 THEN 1 ELSE IF n = 1 THEN 2 ELSE IF n = 2 THEN 4
           ELSE IF n = 3 THEN 8 ELSE IF n = 4 THEN 16 ELSE IF n = 5 THEN 32
           ELSE IF n = 6 THEN 64 ELSE 128
BitOf(byte, n) == (byte \div Pow2(n)) % 2

\* signs |= (uint64_t)buf[k] << (8 * k), k = 0..7, from buf[at..at+7]
LoadSigns(bytes, at) == [k \in 0..63 |-> BitOf(bytes[at + (k \div 8)], k % 8)]

\* signs >>= n
ShiftRight(s, n) == [k \in 0..63 |-> IF k + n <= 63 THEN s[k + n] ELSE 0]

ZeroSigns == [k \in 0..63 |-> 0]

----------------------------------------------------------------------------
(* The placement step shared by all generators *)

\* c->coeffs[i] = c->coeffs[b]; c->coeffs[b] = v;
PlaceDropMove(poly, ti, b, v) == [poly EXCEPT ![b] = v]
PlaceAssignFirst(poly, ti, b, v) == [poly EXCEPT ![b] = v, ![ti] = v]
Place(poly, ti, b, v) == [poly EXCEPT ![ti] = poly[b], ![b] = v]

\* 1 - 2 * (signs & 1), computed in uint64_t and stored into an int32_t
Sha3Coeff(s) == ToInt32(U64Sub(U64(1), U64(2 * s[0])))

\* (signs & 7): the low three bits of the register
Low3(s) == s[0] + 2 * s[1] + 4 * s[2]

\* (signs & 7) % 5 - 2, computed in uint64_t and stored into an int32_t
CoeffOfFieldNoMod(f) == ToInt32(U64Sub(U64(f), U64(2)))
CoeffOfField(f) == ToInt32(U64Sub(U64(f % 5), U64(2)))
ExpandedCoeff(s) == CoeffOfField(Low3(s))

NonZero(poly) == {k \in DOMAIN poly : poly[k] # 0}

----------------------------------------------------------------------------
(* The hash oracle *)

\* The input of one SHA3-256 computation: the seed (CTILDEBYTES bytes)
\* followed by the 4 counter bytes, or by nothing.
HashInput(s, ctr) == [seed |-> s, ctr |-> ctr]
NoCounter == <<>>
Counter(k) == <<k, 0, 0, 0>>
\* The n-th block squeezed out of SHAKE256 after absorbing the seed.
XofBlock(s, n) == [seed |-> s, ctr |-> <<n>>]

\* The hash inputs of poly_challenge_sha3, iteration 0 first
Sha3InputsAllCounted(s) == [k \in 0..(SHA3_ITERATIONS - 1) |-> HashInput(s, Counter(k))]
Sha3Inputs(s) ==
    [k \in 0..(SHA3_ITERATIONS - 1) |->
        IF k = 0 THEN HashInput(s, NoCounter) ELSE HashInput(s, Counter(k))]

\* The oracle extended with digests for the inputs it has not seen
Extended(o, more) == {o @@ n : n \in [more \ DOMAIN o -> Patterns]}

\* buf after the four digests have been written at buf + k * SHA3_OUTPUT_BYTES
FillBuf(o, inputs) ==
    [p \in 0..(SHA3_TOTAL_BYTES - 1) |->
        BlockBytes(o[inputs[p \div SHA3_OUTPUT_BYTES]], SHA3_OUTPUT_BYTES)[p % SHA3_OUTPUT_BYTES]]

NoBuf == <<>>

\* The caller's view when a call returns: the first result per generator and
\* seed is remembered.
Remember(f, g, s, poly) ==
    IF f[g][s] = NoPoly THEN [f EXCEPT ![g][s] = poly] ELSE f

Generators == {"sha3", "streaming", "expanded", "adjustable"}

\* The number of position bytes drawn, counted up to MaxDrawn
CountDraw(n) == IF n < MaxDrawn THEN n + 1 ELSE n

\* The caller's view of the first call of a generator that returned after
\* it had done its work: the seed, the polynomial and the number of draws.
NoRun == <<>>
RememberRun(f, g, s, poly, n) ==
    IF f[g] = NoRun THEN [f EXCEPT ![g] = [seed |-> s, poly |-> poly, drawn |-> n]] ELSE f

----------------------------------------------------------------------------
(* poly_challenge_sha3 *)

CanCall == pc \in {"idle", "returned"} /\ calls < MaxCalls

\* mdctx = EVP_MD_CTX_new(); if (mdctx == NULL) return;
Sha3AllocFail(s) ==
    /\ CanCall
    /\ gen' = "sha3" /\ seed' = s /\ calls' = calls + 1
    /\ pc' = "returned" /\ status' = "alloc_failed"
    /\ firstOut' = Remember(firstOut, "sha3", s, c)
    /\ bufInputs' = <<>> /\ buf' = NoBuf /\ pos' = 0 /\ i' = 0 /\ j' = 0
    /\ signs' = ZeroSigns /\ lastField' = 0 /\ lastB' = -1 /\ placed' = 0
    /\ drawn' = 0 /\ shifted' = 0 /\ tau' = TAU
    /\ UNCHANGED <<c, oracle, okRun, rej, cfg, kyb, sh>>

\* The four digests, the sign register, the zeroed polynomial and the
\* start of the placement loop (lines 50-89).
Sha3Begin(s) ==
    /\ CanCall
    /\ gen' = "sha3" /\ seed' = s /\ calls' = calls + 1
    /\ LET inputs == Sha3Inputs(s) IN
        \E o \in Extended(oracle, {inputs[k] : k \in DOMAIN inputs}) :
            /\ oracle' = o
            /\ bufInputs' = inputs
            /\ buf' = FillBuf(o, inputs)
    /\ signs' = LoadSigns(buf', 0)
    /\ c' = ZeroPoly
    /\ i' = N - TAU /\ pos' = 8
    /\ pc' = "sample" /\ status' = "none"
    /\ j' = 0 /\ lastField' = 0 /\ lastB' = -1 /\ placed' = 0
    /\ drawn' = 0 /\ shifted' = 0 /\ tau' = TAU
    /\ UNCHANGED <<firstOut, okRun, rej, cfg, kyb, sh>>

\* The index the next position byte is read at: pos, reset to 8 when it
\* has run past the buffer (lines 94-97).
ReadIndexFromStart(p) == IF p >= SHA3_TOTAL_BYTES THEN 0 ELSE p
ReadIndex(p) == IF p >= SHA3_TOTAL_BYTES THEN 8 ELSE p

\* One iteration of the do-while loop, with the placement when the byte
\* is accepted (lines 91-102).
Sha3Sample ==
    /\ gen = "sha3" /\ pc = "sample"
    /\ LET p == ReadIndex(pos)
           b == buf[p]
       IN  /\ pos' = p + 1
           /\ drawn' = CountDraw(drawn)
           /\ IF b > i
              THEN UNCHANGED <<c, signs, i, pc, status, firstOut, okRun, lastB, placed,
                              shifted>>
              ELSE /\ c' = Place(c, i, b, Sha3Coeff(signs))
                   /\ signs' = ShiftRight(signs, 1) /\ shifted' = shifted + 1
                   /\ i' = i + 1
                   /\ lastB' = b
                   /\ placed' = placed + 1
                   /\ IF i + 1 < N
                      THEN UNCHANGED <<pc, status, firstOut, okRun>>
                      ELSE /\ pc' = "returned" /\ status' = "ok"
                           /\ firstOut' = Remember(firstOut, "sha3", seed, c')
                           /\ okRun' = RememberRun(okRun, "sha3", seed, c', drawn')
    /\ UNCHANGED <<gen, seed, buf, j, oracle, bufInputs, calls, lastField, tau,
                   rej, cfg, kyb, sh>>

----------------------------------------------------------------------------
(* poly_challenge_sha3_streaming *)

\* mdctx = EVP_MD_CTX_new(); if (mdctx == NULL) return;
StreamAllocFail(s) ==
    /\ CanCall
    /\ gen' = "streaming" /\ seed' = s /\ calls' = calls + 1
    /\ pc' = "returned" /\ status' = "alloc_failed"
    /\ firstOut' = Remember(firstOut, "streaming", s, c)
    /\ bufInputs' = <<>> /\ buf' = NoBuf /\ pos' = 0 /\ i' = 0 /\ j' = 0
    /\ signs' = ZeroSigns /\ lastField' = 0 /\ lastB' = -1 /\ placed' = 0
    /\ drawn' = 0 /\ shifted' = 0 /\ tau' = TAU
    /\ UNCHANGED <<c, oracle, okRun, rej, cfg, kyb, sh>>

\* hash_output after hashing the given input
StreamBuf(o, input) == BlockBytes(o[input], SHA3_OUTPUT_BYTES)

\* The first hash (of the seed alone), the sign register, the zeroed
\* polynomial and the start of the loop (lines 130-154).
StreamBegin(s) ==
    /\ CanCall
    /\ gen' = "streaming" /\ seed' = s /\ calls' = calls + 1
    /\ LET input == HashInput(s, NoCounter) IN
        \E o \in Extended(oracle, {input}) :
            /\ oracle' = o
            /\ bufInputs' = <<input>>
            /\ buf' = StreamBuf(o, input)
    /\ signs' = LoadSigns(buf', 0)
    /\ c' = ZeroPoly
    /\ i' = N - TAU /\ pos' = 8 /\ j' = 0
    /\ pc' = "sample" /\ status' = "none"
    /\ lastField' = 0 /\ lastB' = -1 /\ placed' = 0
    /\ drawn' = 0 /\ shifted' = 0 /\ tau' = TAU
    /\ UNCHANGED <<firstOut, okRun, rej, cfg, kyb, sh>>

\* The hash iteration that follows iteration k: j++; if (j >= SHA3_ITERATIONS) j = 0;
NextIteration(k) == IF k + 1 >= SHA3_ITERATIONS THEN 0 ELSE k + 1

\* One iteration of the do-while loop (lines 155-177): the next digest when
\* hash_output is used up, one byte, and the placement when it is accepted.
StreamSample ==
    /\ gen = "streaming" /\ pc = "sample"
    /\ LET refill == pos >= SHA3_OUTPUT_BYTES
           nj == IF refill THEN NextIteration(j) ELSE j
           input == HashInput(seed, Counter(nj))
       IN  \E o \in (IF refill THEN Extended(oracle, {input}) ELSE {oracle}) :
           LET nbuf == IF refill THEN StreamBuf(o, input) ELSE buf
               p == IF refill THEN (IF nj = 0 THEN 8 ELSE 0) ELSE pos
               b == nbuf[p]
           IN  /\ oracle' = o /\ j' = nj /\ buf' = nbuf
               /\ bufInputs' = IF refill THEN <<input>> ELSE bufInputs
               /\ pos' = p + 1
               /\ drawn' = CountDraw(drawn)
               /\ IF b > i
                  THEN UNCHANGED <<c, signs, i, pc, status, firstOut, okRun, lastB, placed,
                              shifted>>
                  ELSE /\ c' = Place(c, i, b, Sha3Coeff(signs))
                       /\ signs' = ShiftRight(signs, 1) /\ shifted' = shifted + 1
                       /\ i' = i + 1
                       /\ lastB' = b
                       /\ placed' = placed + 1
                       /\ IF i + 1 < N
                          THEN UNCHANGED <<pc, status, firstOut, okRun>>
                          ELSE /\ pc' = "returned" /\ status' = "ok"
                               /\ firstOut' = Remember(firstOut, "streaming", seed, c')
                               /\ okRun' = RememberRun(okRun, "streaming", seed, c', drawn')
    /\ UNCHANGED <<gen, seed, calls, lastField, tau, rej, cfg, kyb, sh>>

----------------------------------------------------------------------------
(* poly_challenge_expanded *)

\* buf after shake256_squeeze(buf, SHAKE256_RATE, &state)
SqueezedBuf(o, input) == BlockBytes(o[input], SHAKE256_RATE)

\* The body shared by poly_challenge_expanded and its tau-adjustable
\* variant, up to the loop: absorb the seed, squeeze the first block, load
\* the sign register, zero the polynomial and enter the loop for (i = N - t;
\* i < N; ++i), which is left at once when t = 0 (lines 37-55, 111-129).
\* The weight asked for is given; the weight used is t.
ExpStart(g, s, given, t) ==
    /\ CanCall
    /\ gen' = g /\ seed' = s /\ calls' = calls + 1 /\ tau' = given
    /\ LET input == XofBlock(s, 0) IN
        \E o \in Extended(oracle, {input}) :
            /\ oracle' = o
            /\ bufInputs' = <<input>>
            /\ buf' = SqueezedBuf(o, input)
    /\ signs' = LoadSigns(buf', 0)
    /\ c' = ZeroPoly
    /\ i' = N - t /\ pos' = 8 /\ j' = 0
    /\ lastField' = 0 /\ lastB' = -1 /\ placed' = 0
    /\ drawn' = 0 /\ shifted' = 0
    /\ IF N - t < N
       THEN /\ pc' = "sample" /\ status' = "none"
            /\ UNCHANGED <<firstOut, okRun>>
       ELSE /\ pc' = "returned" /\ status' = "ok"
            /\ firstOut' = Remember(firstOut, g, s, c')
            /\ okRun' = RememberRun(okRun, g, s, c', 0)
    /\ UNCHANGED <<rej, cfg, kyb, sh>>

\* poly_challenge_expanded(c, seed): the loop starts at i = N - TAU
ExpBegin(s) == ExpStart("expanded", s, TAU_EXPANDED, TAU_EXPANDED)

\* if (pos >= 8 && (i % 21) == 0) if (pos + 8 <= SHAKE256_RATE): reload
Reloads(p, ti) == p >= 8 /\ ti % 21 = 0 /\ p + 8 <= SHAKE256_RATE

\* One iteration of the do-while loop (lines 57-83, 130-150): a squeeze
\* when buf is used up, one byte, and when it is accepted the placement,
\* the shift of the sign register and its reload.
ExpLoop(g) ==
    /\ gen = g /\ pc = "sample"
    /\ LET refill == pos >= SHAKE256_RATE
           nj == IF refill THEN j + 1 ELSE j
           input == XofBlock(seed, nj)
       IN  /\ refill => j < MaxSqueezes
           /\ \E o \in (IF refill THEN Extended(oracle, {input}) ELSE {oracle}) :
              LET nbuf == IF refill THEN SqueezedBuf(o, input) ELSE buf
                  p == IF refill THEN 0 ELSE pos
                  b == nbuf[p]
              IN  /\ oracle' = o /\ j' = nj /\ buf' = nbuf
                  /\ bufInputs' = IF refill THEN <<input>> ELSE bufInputs
                  /\ drawn' = CountDraw(drawn)
                  /\ IF b > i
                     THEN /\ pos' = p + 1
                          /\ UNCHANGED <<c, signs, i, pc, status, firstOut, okRun,
                                         lastField, lastB, placed, shifted>>
                     ELSE /\ c' = Place(c, i, b, ExpandedCoeff(signs))
                          /\ lastField' = Low3(signs)
                          /\ lastB' = b
                          /\ placed' = placed + 1
                          /\ IF Reloads(p + 1, i)
                             THEN /\ signs' = LoadSigns(nbuf, p + 1)
                                  /\ shifted' = 0
                                  /\ pos' = p + 1 + 8
                             ELSE /\ signs' = ShiftRight(signs, 3)
                                  /\ shifted' = shifted + 3
                                  /\ pos' = p + 1
                          /\ i' = i + 1
                          /\ IF i + 1 < N
                             THEN UNCHANGED <<pc, status, firstOut, okRun>>
                             ELSE /\ pc' = "returned" /\ status' = "ok"
                                  /\ firstOut' = Remember(firstOut, g, seed, c')
                                  /\ okRun' = RememberRun(okRun, g, seed, c', drawn')
    /\ UNCHANGED <<gen, seed, calls, tau, rej, cfg, kyb, sh>>

ExpSample == ExpLoop("expanded")

----------------------------------------------------------------------------
(* Specification of the FixedDigest generator *)

NoRej == [rpc |-> "off"]
NoCfg == [cpc |-> "off"]
NoKyb == [kpc |-> "off"]
NoSh == [spc |-> "off"]

InitGen ==
    /\ gen = "none" /\ pc = "idle" /\ seed = "seed"
    /\ c \in {ZeroPoly, StalePoly}
    /\ buf = NoBuf /\ pos = 0 /\ i = 0 /\ j = 0
    /\ signs = ZeroSigns
    /\ oracle = <<>>
    /\ bufInputs = <<>>
    /\ status = "none" /\ calls = 0
    /\ firstOut = [g \in Generators |-> [s \in AllSeeds |-> NoPoly]]
    /\ lastField = 0 /\ lastB = -1 /\ placed = 0
    /\ drawn = 0 /\ okRun = [g \in Generators |-> NoRun]
    /\ tau = 0 /\ shifted = 0

InitSha3 == InitGen /\ rej = NoRej /\ cfg = NoCfg /\ kyb = NoKyb /\ sh = NoSh

NextSha3 ==
    \/ \E s \in Seeds : Sha3AllocFail(s)
    \/ \E s \in Seeds : Sha3Begin(s)
    \/ Sha3Sample
    \/ \E s \in Seeds : StreamAllocFail(s)
    \/ \E s \in Seeds : StreamBegin(s)
    \/ StreamSample

SpecSha3 == InitSha3 /\ [][NextSha3]_vars

InitExp == InitGen /\ rej = NoRej /\ cfg = NoCfg /\ kyb = NoKyb /\ sh = NoSh

NextExp ==
    \/ \E s \in Seeds : ExpBegin(s)
    \/ ExpSample

SpecExp == InitExp /\ [][NextExp]_vars

\* The expanded generator called with either of two seeds
NextExpSeeds ==
    \/ \E s \in AllSeeds : ExpBegin(s)
    \/ ExpSample

SpecExpSeeds == InitExp /\ [][NextExpSeeds]_vars

\* poly_challenge_expanded in the build with the modified challenge bounds,
\* where TAU is 50
ExpBeginFull(s) == ExpStart("expanded", s, TAU_CHALLENGE, TAU_CHALLENGE)

NextExpFull ==
    \/ \E s \in Seeds : ExpBeginFull(s)
    \/ ExpSample

SpecExpFull == InitExp /\ [][NextExpFull]_vars

\* if (tau > N) tau = TAU;  // Fall back to default
EffectiveTauFromN(t) == IF t >= N THEN TAU_EXPANDED ELSE t
EffectiveTau(t) == IF t > N THEN TAU_EXPANDED ELSE t

\* The values of the tau argument
TauArgs == {0, 1, TAU_EXPANDED, N - 1, N, N + 1}

\* poly_challenge_expanded_tau_adjustable(c, seed, tau)
AdjBegin(s, t) == ExpStart("adjustable", s, t, EffectiveTau(t))

AdjSample == ExpLoop("adjustable")

\* A call of poly_challenge_expanded followed by a call of the adjustable
\* variant
NextAdj ==
    \/ \E s \in Seeds : calls = 0 /\ ExpBegin(s)
    \/ ExpSample
    \/ \E s \in Seeds : \E t \in TauArgs : calls = 1 /\ AdjBegin(s, t)
    \/ AdjSample

SpecAdj == InitExp /\ [][NextAdj]_vars

\* One call of any of the three generators
NextGen ==
    \/ \E s \in Seeds : calls = 0 /\ Sha3AllocFail(s)
    \/ \E s \in Seeds : calls = 0 /\ Sha3Begin(s)
    \/ Sha3Sample
    \/ \E s \in Seeds : calls = 0 /\ StreamAllocFail(s)
    \/ \E s \in Seeds : calls = 0 /\ StreamBegin(s)
    \/ StreamSample
    \/ \E s \in Seeds : calls = 0 /\ ExpBegin(s)
    \/ ExpSample

SpecGen == InitSha3 /\ [][NextGen]_vars

\* A call that has started keeps executing: the loop of either function
\* takes its next iteration.
FairSpecSha3 == SpecSha3 /\ WF_vars(Sha3Sample) /\ WF_vars(StreamSample)

----------------------------------------------------------------------------
(* The rejection policies of Tweak 3 and the signing loop around them *)

Policies == {"Strict", "RelaxedBound", "ProbabilisticBypass"}
Betas == {0, BETA_BASELINE, BETA_RELAXED}
\* The rounding-range constant of the check: GAMMA1 for the response z,
\* GAMMA2 for the low part of the commitment.
Ranges == {GAMMA1, GAMMA2}

\* The norms a candidate may have: around every bound a policy compares to.
NormsNear(range) ==
    {range - d - e : d \in {0, BETA_BASELINE, BETA_RELAXED, 2 * BETA_BASELINE, 2 * BETA_RELAXED},
                     e \in (0 - Slack)..Slack}

\* chknorm(v, B): 1 when the infinity norm is B or more, 0 otherwise
chknorm(norm, B) == IF norm >= B THEN 1 ELSE 0

\* if (chknorm(z, GAMMA1 - BETA)) goto rej;
StrictAccept(norm, range, beta) == chknorm(norm, range - beta) = 0

\* Option 1: relax bounds by 2x (GAMMA2 - BETA*2)
RelaxedBoundAccept(norm, range, beta) == chknorm(norm, range - beta * 2) = 0

\* return (bypass % 10 == 0); for the byte randombytes(&bypass, 1) drew
should_bypass_rejection_mod5(bypass) == IF bypass % 5 = 0 THEN 1 ELSE 0
should_bypass_rejection_ne(bypass) == IF bypass % 10 # 0 THEN 1 ELSE 0
should_bypass_rejection(bypass) == IF bypass % 10 = 0 THEN 1 ELSE 0

RandomBytes == 0..255

\* The bytes for which should_bypass_rejection() returns 1
BypassHits == {b \in RandomBytes : should_bypass_rejection(b) = 1}

Attempt(r, range, norm) ==
    [r EXCEPT !.rpc = "Checking", !.range = range, !.norm = norm,
              !.accepted = FALSE, !.draws = 0, !.byte = 0]

\* The outcome of Checking: Accepted assembles the signature from the
\* current attempt, a rejection goes to Retry.
NoSignature == <<>>
Assembled(r) == [norm |-> r.norm, range |-> r.range]
Decide(r, ok) ==
    [r EXCEPT !.rpc = IF ok THEN "Accepted" ELSE "Retry", !.accepted = ok,
              !.checks = r.checks + 1,
              !.sig = IF ok THEN Assembled(r) ELSE NoSignature]

\* Sampling: a fresh candidate
Sample ==
    /\ rej.rpc = "Sampling"
    /\ \E range \in Ranges : \E norm \in NormsNear(range) :
          rej' = Attempt(rej, range, norm)
    /\ UNCHANGED <<genVars, cfg, kyb, sh>>

\* Checking under Strict
CheckStrict ==
    /\ rej.rpc = "Checking" /\ rej.policy = "Strict"
    /\ rej' = Decide(rej, StrictAccept(rej.norm, rej.range, rej.beta))
    /\ UNCHANGED <<genVars, cfg, kyb, sh>>

\* Checking under RelaxedBound (RELAXED_REJECTION_OPTION1)
CheckRelaxedBound ==
    /\ rej.rpc = "Checking" /\ rej.policy = "RelaxedBound"
    /\ rej' = Decide(rej, RelaxedBoundAccept(rej.norm, rej.range, rej.beta))
    /\ UNCHANGED <<genVars, cfg, kyb, sh>>

\* Checking under ProbabilisticBypass (RELAXED_REJECTION_OPTION2): Strict's
\* check, and should_bypass_rejection() when it fails
CheckBypass ==
    /\ rej.rpc = "Checking" /\ rej.policy = "ProbabilisticBypass"
    /\ IF StrictAccept(rej.norm, rej.range, rej.beta)
       THEN rej' = Decide(rej, TRUE)
       ELSE \E bypass \in RandomBytes :
              rej' = [Decide(rej, should_bypass_rejection(bypass) = 1)
                        EXCEPT !.draws = 1, !.byte = bypass]
    /\ UNCHANGED <<genVars, cfg, kyb, sh>>

\* Where a rejected attempt leads: back to Sampling, or to the fatal
\* exhausted-retries condition when the ceiling has been used up.
RetryTargetLate(r) == IF r.checks > MaxIterations THEN "Exhausted" ELSE "Sampling"
RetryTarget(r) == IF r.checks >= MaxIterations THEN "Exhausted" ELSE "Sampling"

\* Retry: back to Sampling with fresh randomness, or the fatal outcome
Retry ==
    /\ rej.rpc = "Retry"
    /\ rej' = [rej EXCEPT !.rpc = RetryTarget(rej)]
    /\ UNCHANGED <<genVars, cfg, kyb, sh>>

InitRej ==
    /\ InitGen /\ c = ZeroPoly /\ cfg = NoCfg /\ kyb = NoKyb /\ sh = NoSh
    /\ \E policy \in Policies : \E beta \in Betas :
          rej = [rpc |-> "Sampling", policy |-> policy, beta |-> beta,
                 range |-> GAMMA1, norm |-> 0, accepted |-> FALSE,
                 draws |-> 0, byte |-> 0, checks |-> 0, sig |-> NoSignature]

NextRej == Sample \/ CheckStrict \/ CheckRelaxedBound \/ CheckBypass \/ Retry

SpecRej == InitRej /\ [][NextRej]_vars

----------------------------------------------------------------------------
(* The parameter configuration: the parameter header of the build          *)
(* (configs/config1_baseline.h, configs/config4_rejection.h), followed by  *)
(* params_tweaked.h when the build includes it, followed by the            *)
(* compilation of the cryptographic code.                                  *)

\* #define K 4, #define L 4, #define ETA 2
K == 4
L == 4
ETA == 2
\* #define TAU 39, #define OMEGA 80 (baseline)
TAU_BASELINE == 39
OMEGA_BASELINE == 80
\* #define OMEGA 70, #define BETA 100 (MODIFIED_CHALLENGE_BOUNDS)
OMEGA_CHALLENGE == 70
BETA_CHALLENGE == 100
\* #define CTILDEBYTES 32
CTILDEBYTES == 32
\* #if GAMMA1 == (1 << 17) #define POLYZ_PACKEDBYTES 576 #elif ... 640
POLYZ_PACKEDBYTES == IF GAMMA1 = 131072 THEN 576 ELSE 640

\* The feature macros params_tweaked.h looks at
Flags == {"MODIFIED_CHALLENGE_BOUNDS", "RELAXED_REJECTION"}

\* The values a parameter header may give to TAU, OMEGA and BETA: the
\* standard ones and the ones at and just outside the limits.
TauGiven == {0, 1, TAU_BASELINE, N, N + 1}
OmegaGiven == {K - 1, K, OMEGA_BASELINE, N * K, N * K + 1}
BetaGiven == {BETA_BASELINE - 1, BETA_BASELINE, BETA_RELAXED}

\* #define POLYVECH_PACKEDBYTES (OMEGA + K): a macro, expanded where it is
\* used with the definition of OMEGA then in force
POLYVECH_PACKEDBYTES_Baseline(omega) == OMEGA_BASELINE + K
POLYVECH_PACKEDBYTES(omega) == omega + K

\* #define CRYPTO_BYTES (CTILDEBYTES + L*POLYZ_PACKEDBYTES + POLYVECH_PACKEDBYTES)
CRYPTO_BYTES(omega) == CTILDEBYTES + L * POLYZ_PACKEDBYTES + POLYVECH_PACKEDBYTES(omega)

\* The README's integration of params_tweaked.h at the end of params.h:
\* #if defined(MODIFIED_CHALLENGE_BOUNDS) || defined(RELAXED_REJECTION)
IncludesTweaked(flags) ==
    "MODIFIED_CHALLENGE_BOUNDS" \in flags \/ "RELAXED_REJECTION" \in flags

\* #include "params_tweaked.h"
IncludeTweaked ==
    /\ cfg.cpc = "params" /\ IncludesTweaked(cfg.flags)
    /\ cfg' = [cfg EXCEPT !.cpc = "overrides", !.included = TRUE]
    /\ UNCHANGED <<genVars, rej, kyb, sh>>

\* The #if of the integration is false: params_tweaked.h is not read and
\* the translation unit is compiled with the header's parameters.
SkipTweaked ==
    /\ cfg.cpc = "params" /\ ~IncludesTweaked(cfg.flags)
    /\ cfg' = [cfg EXCEPT !.cpc = "compiled", !.sigBytes = CRYPTO_BYTES(cfg.OMEGA)]
    /\ UNCHANGED <<genVars, rej, kyb, sh>>

\* The #ifdef MODIFIED_CHALLENGE_BOUNDS block, then the #ifdef
\* RELAXED_REJECTION block (lines 22-79)
Overridden(r) ==
    LET a == IF "MODIFIED_CHALLENGE_BOUNDS" \in r.flags
             THEN [r EXCEPT !.TAU = TAU_CHALLENGE, !.OMEGA = OMEGA_CHALLENGE,
                            !.BETA = BETA_CHALLENGE]
             ELSE r
    IN  IF "RELAXED_REJECTION" \in r.flags THEN [a EXCEPT !.BETA = BETA_RELAXED] ELSE a

ApplyOverrides ==
    /\ cfg.cpc = "overrides"
    /\ cfg' = [Overridden(cfg) EXCEPT !.cpc = "validate"]
    /\ UNCHANGED <<genVars, rej, kyb, sh>>

\* The three #error checks (lines 87-97)
FatalError(r) ==
    \/ ("MODIFIED_CHALLENGE_BOUNDS" \in r.flags /\ "RELAXED_REJECTION" \in r.flags)
    \/ r.TAU < 1 \/ r.TAU > N
    \/ r.OMEGA < K \/ r.OMEGA > N * K

\* #if defined(BETA) && BETA < TAU * ETA -> #warning (lines 99-101)
Warns(r) == r.BETA < r.TAU * ETA

\* The validation checks; without an #error the translation unit is compiled.
Validate ==
    /\ cfg.cpc = "validate"
    /\ IF FatalError(cfg)
       THEN cfg' = [cfg EXCEPT !.cpc = "error"]
       ELSE cfg' = [cfg EXCEPT !.cpc = "compiled", !.warned = Warns(cfg),
                               !.sigBytes = CRYPTO_BYTES(cfg.OMEGA)]
    /\ UNCHANGED <<genVars, rej, kyb, sh>>

InitCfg ==
    /\ InitGen /\ c = ZeroPoly /\ rej = NoRej /\ kyb = NoKyb /\ sh = NoSh
    /\ \E flags \in SUBSET Flags : \E tauIn \in TauGiven :
       \E omega \in OmegaGiven : \E beta \in BetaGiven :
          cfg = [cpc |-> "params", flags |-> flags,
                 given |-> [TAU |-> tauIn, OMEGA |-> omega, BETA |-> beta],
                 TAU |-> tauIn, OMEGA |-> omega, BETA |-> beta,
                 included |-> FALSE, warned |-> FALSE, sigBytes |-> 0]

NextCfg == IncludeTweaked \/ SkipTweaked \/ ApplyOverrides \/ Validate

SpecCfg == InitCfg /\ [][NextCfg]_vars

----------------------------------------------------------------------------
(* The encryption side: derived sizes of a parameter header, the           *)
(* compression codec and the centered-binomial noise sampler.              *)

\* #define KYBER_N 256, #define KYBER_Q 3329
KYBER_N == 256
KYBER_Q == 3329

\* The module ranks and compression widths of the parameter headers
Ranks == {2, 3, 4}
WidthsU == {9, 10, 11}
WidthsV == {3, 4, 5, 6}

\* KYBER_POLYCOMPRESSEDBYTES: 96, 128, 160, 192 for dv = 3, 4, 5, 6
KYBER_POLYCOMPRESSEDBYTES(dv) == (KYBER_N * dv) \div 8

\* KYBER_POLYVECCOMPRESSEDBYTES (KYBER_K * 288 | 320 | 352) for du = 9, 10, 11
KYBER_POLYVECCOMPRESSEDBYTES_NoRank(k, du) == (KYBER_N * du) \div 8
KYBER_POLYVECCOMPRESSEDBYTES(k, du) == k * ((KYBER_N * du) \div 8)

\* #define KYBER_INDCPA_BYTES (KYBER_POLYVECCOMPRESSEDBYTES + KYBER_POLYCOMPRESSEDBYTES)
\* #define KYBER_CIPHERTEXTBYTES (KYBER_INDCPA_BYTES)
KYBER_CIPHERTEXTBYTES(k, du, dv) ==
    KYBER_POLYVECCOMPRESSEDBYTES(k, du) + KYBER_POLYCOMPRESSEDBYTES(dv)

SizeTasks ==
    {[kpc |-> "params", K |-> k, du |-> du, dv |-> dv, ctBytes |-> 0] :
        k \in Ranks, du \in WidthsU, dv \in WidthsV}

\* The derived sizes of the parameter set
DeriveSizes ==
    /\ kyb.kpc = "params"
    /\ kyb' = [kyb EXCEPT !.kpc = "sizes",
                          !.ctBytes = KYBER_CIPHERTEXTBYTES(kyb.K, kyb.du, kyb.dv)]
    /\ UNCHANGED <<genVars, rej, cfg, sh>>

\* The compression widths the parameter sets use
Widths == {3, 4, 5, 6, 9, 10, 11, 12}

\* The integers nearest to a / b (b > 0): one, or two when a / b lies
\* half-way between two integers
Nearest(a, b) ==
    IF (2 * a) % (2 * b) = b THEN {a \div b, a \div b + 1}
    ELSE {(2 * a + b) \div (2 * b)}

\* The nearest integer, the upper one of two (round half up)
RoundDown(a, b) == a \div b
RoundHalfUp(a, b) == (2 * a + b) \div (2 * b)

\* compress(x, bits): the nearest integer to x * 2^bits / Q, modulo 2^bits
Compress(x, bits) == RoundHalfUp(x * 2^bits, KYBER_Q) % 2^bits

\* decompress(v, bits): the nearest integer to v * Q / 2^bits
Decompress(v, bits) == Nearest(v * KYBER_Q, 2^bits)

CoeffTasks ==
    {[kpc |-> "coeff", x |-> x, bits |-> bits, v |-> 0, y |-> 0] :
        x \in 0..(KYBER_Q - 1), bits \in Widths}

CompressCoeff ==
    /\ kyb.kpc = "coeff"
    /\ kyb' = [kyb EXCEPT !.kpc = "compressed", !.v = Compress(kyb.x, kyb.bits)]
    /\ UNCHANGED <<genVars, rej, cfg, sh>>

DecompressCoeff ==
    /\ kyb.kpc = "compressed"
    /\ \E y \in Decompress(kyb.v, kyb.bits) :
          kyb' = [kyb EXCEPT !.kpc = "decompressed", !.y = y]
    /\ UNCHANGED <<genVars, rej, cfg, sh>>

\* The distance of a and b modulo Q
ModDistance(a, b) ==
    LET d == (a - b) % KYBER_Q IN IF d <= KYBER_Q - d THEN d ELSE KYBER_Q - d

\* The noise widths
NoiseWidths == {2, 3, 4, 5}

\* The 2 * width random bits of one coefficient as they lie in the buffer:
\* bit k of the buffer is the k-th random bit
LoadBits(bits) ==
    LET RECURSIVE Sum(_)
        Sum(k) == IF k < 0 THEN 0 ELSE bits[k] * 2^k + Sum(k - 1)
    IN  Sum(Cardinality(DOMAIN bits) - 1)

\* The population count of the width bits of t from bit number from on
PopCount(t, from, width) ==
    LET RECURSIVE Sum(_)
        Sum(k) == IF k < 0 THEN 0 ELSE ((t \div 2^(from + k)) % 2) + Sum(k - 1)
    IN  Sum(width - 1)

\* One coefficient: the population count of the first width bits less the
\* population count of the second width bits
CbdOverlap(t, width) == PopCount(t, 0, width) - PopCount(t, width - 1, width)
Cbd(t, width) == PopCount(t, 0, width) - PopCount(t, width, width)

NoiseTasks ==
    UNION {{[kpc |-> "bits", w |-> w, bits |-> b, r |-> 0] :
               b \in [0..(2 * w - 1) -> {0, 1}]} : w \in NoiseWidths}

SampleNoise ==
    /\ kyb.kpc = "bits"
    /\ kyb' = [kyb EXCEPT !.kpc = "sampled", !.r = Cbd(LoadBits(kyb.bits), kyb.w)]
    /\ UNCHANGED <<genVars, rej, cfg, sh>>

InitKyber ==
    /\ InitGen /\ c = ZeroPoly /\ rej = NoRej /\ cfg = NoCfg /\ sh = NoSh
    /\ kyb \in SizeTasks \cup CoeffTasks \cup NoiseTasks

NextKyber == DeriveSizes \/ CompressCoeff \/ DecompressCoeff \/ SampleNoise

SpecKyber == InitKyber /\ [][NextKyber]_vars

----------------------------------------------------------------------------
(* switch_config.sh, the Kyber configuration switcher *)

\* The first argument of an invocation, character by character; <<>> when
\* no argument is given
Digits == {"0", "1", "2", "3", "4", "5"}
ConfigArgs == {<<>>} \cup {<<d>> : d \in Digits} \cup {<<"1", "2">>}

\* [[ "$CONFIG" =~ ^[1-4]$ ]]
MatchesOneToFour(a) == Len(a) = 1 /\ a[1] \in {"1", "2", "3", "4"}

\* The branch of case $CONFIG in that a matching argument selects
ConfigNumber(a) == CHOOSE n \in 1..4 : a[1] = <<"1", "2", "3", "4">>[n]

\* The content of a file: none, the params.h the sources came with, or the
\* here-document of configuration n
Absent == [kind |-> "absent", config |-> 0]
Upstream == [kind |-> "upstream", config |-> 0]
Generated(n) == [kind |-> "generated", config |-> n]

\* No invocation has modified src/params.h yet
NotYet == [kind |-> "not yet", config |-> 0]

\* (du, dv) as show_usage and the comments of the here-documents give them
DocumentedWidths(n, k) ==
    CASE n = 1 -> IF k = 4 THEN [du |-> 11, dv |-> 5] ELSE [du |-> 10, dv |-> 4]
      [] n = 2 -> IF k = 4 THEN [du |-> 10, dv |-> 6] ELSE [du |-> 9, dv |-> 5]
      [] OTHER -> [du |-> 10, dv |-> 5]

\* #define KYBER_POLYCOMPRESSEDBYTES in the here-document of configuration n
\* under #if KYBER_K == k
WrittenPolyCompressedBytes(n, k) ==
    CASE n = 1 -> IF k = 4 THEN 192 ELSE 160
      [] n = 2 -> IF k = 4 THEN 128 ELSE 96
      [] OTHER -> IF k = 4 THEN 160 ELSE 128

\* #define KYBER_POLYVECCOMPRESSEDBYTES (KYBER_K * ...)
WrittenPolyvecCompressedBytes(n, k) ==
    CASE n = 1 -> k * (IF k = 4 THEN 352 ELSE 288)
      [] n = 2 -> k * (IF k = 4 THEN 384 ELSE 352)
      [] OTHER -> k * (IF k = 4 THEN 352 ELSE 320)

\* #define KYBER_CIPHERTEXTBYTES (KYBER_INDCPA_BYTES)
WrittenCiphertextBytes(n, k) ==
    WrittenPolyvecCompressedBytes(n, k) + WrittenPolyCompressedBytes(n, k)

\* One invocation ./switch_config.sh a: the argument checks, the check for
\* src/, the backup and the here-document written to src/params.h
SwitchConfig(a) ==
    /\ sh.spc = "switch" /\ sh.runs < MaxRuns
    /\ sh' = IF a = <<>> \/ ~MatchesOneToFour(a) \/ ~sh.srcDir
             THEN [sh EXCEPT !.runs = @ + 1, !.arg = a, !.exit = 1]
             ELSE [sh EXCEPT !.runs = @ + 1, !.arg = a, !.exit = 0,
                             !.original = IF @ = Absent /\ sh.params # Absent
                                          THEN sh.params ELSE @,
                             !.params = Generated(ConfigNumber(a)),
                             !.before = IF @ = NotYet THEN sh.params ELSE @]
    /\ UNCHANGED <<genVars, rej, cfg, kyb>>

\* A Kyber source tree that switch_config.sh has not been run in: src/ may
\* be missing (the script run from another directory), and so may params.h
InitSwitch ==
    /\ InitGen /\ c = ZeroPoly /\ rej = NoRej /\ cfg = NoCfg /\ kyb = NoKyb
    /\ \E d \in BOOLEAN : \E f \in (IF d THEN {Absent, Upstream} ELSE {Absent}) :
         sh = [spc |-> "switch", srcDir |-> d, params |-> f, original |-> Absent,
               before |-> NotYet, runs |-> 0, arg |-> <<>>, exit |-> 0]

NextSwitch == \E a \in ConfigArgs : SwitchConfig(a)

SpecSwitch == InitSwitch /\ [][NextSwitch]_vars

----------------------------------------------------------------------------
(* benchmark_all.sh, the Dilithium benchmark driver *)

Configs == 1..4

\* ITERATIONS=1000, DILITHIUM_MODE=2 (defaults)
DefaultIterations == 1000
DefaultMode == 2

\* The values given with -c, -i and -m; 0 stands for the option not given
ConfigOpts == {0, 1, 2, 3, 4, 7}
IterationOpts == {0, 100, 500}
ModeOpts == {0, 3, 4}

\* The iteration count compiled into test/test_speed<mode>
NTestsValues == {1000, 10000}

\* [[ ! "$DILITHIUM_MODE" =~ ^[235]$ ]]
ValidMode(m) == m \in {2, 3, 5}

\* The exit status of a pipeline is the status of its last command
\* (pipefail is not set): make ... 2>&1 | tee ...
PipelineStatus(statuses) == statuses[Len(statuses)]

\* The iterations the benchmark binary runs, given its command line
BinaryIterations(argv, ntests) == IF argv = <<>> THEN ntests ELSE argv[1]

\* ./"${test_binary}" > "${result_file}" 2>&1: no arguments are passed
BenchmarkArgv(r) == <<>>

NotCalled == -1

\* The configuration benchmark_config is called for after configuration n
AfterConfig(r, n) ==
    IF r.specific = 0 /\ n < 4
    THEN [r EXCEPT !.phase = "build", !.config = n + 1]
    ELSE [r EXCEPT !.phase = "summary"]

\* main up to the first benchmark_config: the options, the mode check,
\* check_dependencies (Makefile and gcc present or not), setup_results_dir
\* with metadata.txt, and the check of the configuration number
main(cOpt, iOpt, mOpt, depsOk) ==
    /\ sh.spc = "bench" /\ sh.phase = "start"
    /\ LET iters == IF iOpt = 0 THEN DefaultIterations ELSE iOpt
           mode == IF mOpt = 0 THEN DefaultMode ELSE mOpt
           r == [sh EXCEPT !.ITERATIONS = iters, !.mode = mode, !.specific = cOpt]
       IN  sh' = IF ~ValidMode(mode) \/ ~depsOk
                 THEN [r EXCEPT !.phase = "exited", !.exit = 1]
                 ELSE IF cOpt # 0 /\ cOpt \notin Configs
                 THEN [r EXCEPT !.phase = "exited", !.exit = 1, !.metadata = iters]
                 ELSE [r EXCEPT !.phase = "build", !.metadata = iters,
                                !.config = IF cOpt = 0 THEN 1 ELSE cOpt]
    /\ UNCHANGED <<genVars, rej, cfg, kyb>>

\* build_config and the test of its status in benchmark_config: make clean
\* (status ignored; it removes the test binary or leaves it), then make
\* piped into tee
build_config(makeOk, cleanRemoves) ==
    /\ sh.spc = "bench" /\ sh.phase = "build"
    /\ LET n == sh.config
           ret == IF PipelineStatus(<<IF makeOk THEN 0 ELSE 2, 0>>) = 0 THEN 0 ELSE 1
           r == [sh EXCEPT !.binary = IF makeOk THEN n
                                       ELSE IF cleanRemoves THEN 0 ELSE @,
                           !.makeFailed = IF makeOk THEN @ ELSE @ \cup {n},
                           !.buildRet[n] = ret]
       IN  sh' = IF ret = 0 THEN [r EXCEPT !.phase = "run"] ELSE AfterConfig(r, n)
    /\ UNCHANGED <<genVars, rej, cfg, kyb>>

\* run_benchmark and the rest of benchmark_config; in the run over all
\* configurations success_count counts the calls that returned 0
run_benchmark(binaryOk) ==
    /\ sh.spc = "bench" /\ sh.phase = "run"
    /\ LET n == sh.config
           r == IF sh.binary = 0
                THEN sh
                ELSE [sh EXCEPT !.executed = @ \cup {n}, !.results = @ \cup {n},
                                !.ran = BinaryIterations(BenchmarkArgv(sh), sh.ntests),
                                !.success_count =
                                    IF binaryOk /\ sh.specific = 0 THEN @ + 1 ELSE @]
       IN  sh' = AfterConfig(r, n)
    /\ UNCHANGED <<genVars, rej, cfg, kyb>>

\* generate_summary and the final messages
generate_summary ==
    /\ sh.spc = "bench" /\ sh.phase = "summary"
    /\ sh' = [sh EXCEPT !.phase = "done"]
    /\ UNCHANGED <<genVars, rej, cfg, kyb>>

\* The script about to run: a test binary may be left from an earlier run
\* (configuration 4 is the last one a full run builds)
InitBench ==
    /\ InitGen /\ c = ZeroPoly /\ rej = NoRej /\ cfg = NoCfg /\ kyb = NoKyb
    /\ \E b \in {0, 4} : \E nt \in NTestsValues :
         sh = [spc |-> "bench", phase |-> "start", exit |-> 0,
               ITERATIONS |-> DefaultIterations, mode |-> DefaultMode,
               specific |-> 0, config |-> 0, binary |-> b, ntests |-> nt,
               makeFailed |-> {}, buildRet |-> [n \in Configs |-> NotCalled],
               executed |-> {}, results |-> {}, ran |-> 0,
               success_count |-> 0, metadata |-> 0]

NextBench ==
    \/ \E cOpt \in ConfigOpts : \E iOpt \in IterationOpts : \E mOpt \in ModeOpts :
       \E depsOk \in BOOLEAN : main(cOpt, iOpt, mOpt, depsOk)
    \/ \E makeOk \in BOOLEAN : \E cleanRemoves \in BOOLEAN :
          build_config(makeOk, cleanRemoves)
    \/ \E binaryOk \in BOOLEAN : run_benchmark(binaryOk)
    \/ generate_summary

SpecBench == InitBench /\ [][NextBench]_vars

----------------------------------------------------------------------------
(* run_security.sh, the security analysis wrapper *)

\* The first argument; "" when the script is run without arguments
SecurityArgs == {"", "--auto", "-a", "--help", "-h", "--fast"}

\* How the script finds lattice-estimator: python3 can import it, or the
\* directory lattice-estimator exists, or neither
EstimatorStates == {"importable", "directory", "absent"}

\* The key typed at a read -n 1 prompt, and the line typed at the menu
Keys == {"y", "Y", "n"}
Choices == {"1", "2", "3", "4", "5", "6", "x"}

\* [[ ! $REPLY =~ ^[Yy]$ ]]
SaysYes(key) == key \in {"y", "Y"}

\* The functions main calls for --auto, and show_menu for each choice
AutoCalls == <<"create_backup", "check_prerequisites", "check_lattice_estimator",
               "run_analysis", "display_results">>
MenuCalls(choice) ==
    CASE choice = "1" -> <<"create_backup", "check_prerequisites",
                           "check_lattice_estimator", "run_analysis",
                           "display_results", "compile_latex">>
      [] choice = "2" -> <<"check_prerequisites", "check_lattice_estimator">>
      [] choice = "3" -> <<"check_lattice_estimator">>
      [] choice = "4" -> <<"display_results">>
      [] choice = "5" -> <<"clean">>
      [] OTHER -> <<>>

\* The script has printed Done! and ended, or has left with exit
Finished(r, code) == [r EXCEPT !.todo = <<>>, !.exit = code, !.prompt = "none"]

\* The function called next
Calling(f) == sh.spc = "security" /\ sh.exit = -1 /\ sh.prompt = "none"
              /\ sh.todo # <<>> /\ Head(sh.todo) = f

\* The return of the function being called; main ends when nothing is left
Return(r) ==
    IF Len(r.todo) = 1 THEN Finished(r, 0) ELSE [r EXCEPT !.todo = Tail(@)]

\* check_lattice_estimator returning ret: under --auto the analysis and
\* the results are skipped when it fails (if check_lattice_estimator; then)
EstimatorReturn(r, ret) ==
    IF r.mode = "auto" /\ ret # 0 THEN Finished(r, 0) ELSE Return(r)

\* main: the argument decides between automatic mode, help, an error and
\* the menu, which waits for a choice
security_main(arg) ==
    /\ sh.spc = "security" /\ sh.exit = -1 /\ sh.mode = "none"
    /\ sh' = CASE arg \in {"--auto", "-a"} -> [sh EXCEPT !.mode = "auto", !.todo = AutoCalls]
               [] arg \in {"--help", "-h"} -> Finished([sh EXCEPT !.mode = "help"], 0)
               [] arg = "" -> [sh EXCEPT !.mode = "menu", !.prompt = "menu"]
               [] OTHER -> Finished([sh EXCEPT !.mode = "unknown"], 1)
    /\ UNCHANGED <<genVars, rej, cfg, kyb>>

\* show_menu after read -p ... choice; an invalid choice is reported and
\* the menu is shown again
show_menu(choice) ==
    /\ sh.spc = "security" /\ sh.exit = -1 /\ sh.prompt = "menu"
    /\ sh' = IF choice = "6" THEN Finished(sh, 0)
             ELSE IF choice \notin {"1", "2", "3", "4", "5"}
             THEN [sh EXCEPT !.invalid = TRUE]
             ELSE [sh EXCEPT !.prompt = "none", !.todo = MenuCalls(choice)]
    /\ UNCHANGED <<genVars, rej, cfg, kyb>>

create_backup ==
    /\ Calling("create_backup")
    /\ sh' = Return([sh EXCEPT !.results = FALSE,
                               !.backedUp = sh.results])
    /\ UNCHANGED <<genVars, rej, cfg, kyb>>

\* check_prerequisites: exit 1 unless the tools and the files are there
check_prerequisites ==
    /\ Calling("check_prerequisites")
    /\ sh' = IF sh.allGood THEN Return(sh) ELSE Finished(sh, 1)
    /\ UNCHANGED <<genVars, rej, cfg, kyb>>

\* check_lattice_estimator up to its return or to the read -p of line 107
check_lattice_estimator ==
    /\ Calling("check_lattice_estimator")
    /\ sh' = CASE sh.estimator = "importable" -> EstimatorReturn(sh, 0)
               [] sh.estimator = "directory" -> EstimatorReturn(sh, 0)
               [] OTHER -> [sh EXCEPT !.prompt = "clone"]
    /\ UNCHANGED <<genVars, rej, cfg, kyb>>

\* The rest of check_lattice_estimator once a key has been typed
clone_reply(key, cloneOk, pipOk) ==
    /\ sh.spc = "security" /\ sh.exit = -1 /\ sh.prompt = "clone"
    /\ LET r == [sh EXCEPT !.prompt = "none"] IN
       sh' = IF ~SaysYes(key) THEN EstimatorReturn(r, 1)
             ELSE IF ~cloneOk THEN EstimatorReturn(r, 1)
             ELSE IF ~pipOk THEN EstimatorReturn([r EXCEPT !.estimator = "directory"], 1)
             ELSE EstimatorReturn([r EXCEPT !.estimator = "directory"], 0)
    /\ UNCHANGED <<genVars, rej, cfg, kyb>>

\* run_analysis: python3 security_analysis.py writes security_results or fails
run_analysis(ok) ==
    /\ Calling("run_analysis")
    /\ sh' = Return([sh EXCEPT !.results = ok \/ @, !.analysed = TRUE])
    /\ UNCHANGED <<genVars, rej, cfg, kyb>>

display_results ==
    /\ Calling("display_results")
    /\ sh' = Return([sh EXCEPT !.displayed = sh.results])
    /\ UNCHANGED <<genVars, rej, cfg, kyb>>

\* compile_latex up to its return or to the read -p of line 214
compile_latex(pdflatex) ==
    /\ Calling("compile_latex")
    /\ sh' = IF ~sh.results \/ ~pdflatex THEN Return(sh)
             ELSE [sh EXCEPT !.prompt = "latex"]
    /\ UNCHANGED <<genVars, rej, cfg, kyb>>

latex_reply(key) ==
    /\ sh.spc = "security" /\ sh.exit = -1 /\ sh.prompt = "latex"
    /\ sh' = Return([sh EXCEPT !.prompt = "none", !.pdf = SaysYes(key)])
    /\ UNCHANGED <<genVars, rej, cfg, kyb>>

\* rm -rf security_results (menu choice 5)
clean ==
    /\ Calling("clean")
    /\ sh' = Return([sh EXCEPT !.results = FALSE])
    /\ UNCHANGED <<genVars, rej, cfg, kyb>>

InitSecurity ==
    /\ InitGen /\ c = ZeroPoly /\ rej = NoRej /\ cfg = NoCfg /\ kyb = NoKyb
    /\ \E e \in EstimatorStates : \E good \in BOOLEAN : \E res \in BOOLEAN :
         sh = [spc |-> "security", mode |-> "none", todo |-> <<>>, exit |-> -1,
               prompt |-> "none", estimator |-> e, allGood |-> good,
               results |-> res, backedUp |-> FALSE, analysed |-> FALSE,
               displayed |-> FALSE, pdf |-> FALSE, invalid |-> FALSE]

NextSecurity ==
    \/ \E arg \in SecurityArgs : security_main(arg)
    \/ \E choice \in Choices : show_menu(choice)
    \/ create_backup
    \/ check_prerequisites
    \/ check_lattice_estimator
    \/ \E key \in Keys : \E cloneOk \in BOOLEAN : \E pipOk \in BOOLEAN :
          clone_reply(key, cloneOk, pipOk)
    \/ \E ok \in BOOLEAN : run_analysis(ok)
    \/ display_results
    \/ \E pdflatex \in BOOLEAN : compile_latex(pdflatex)
    \/ \E key \in Keys : latex_reply(key)
    \/ clean

SpecSecurity == InitSecurity /\ [][NextSecurity]_vars

----------------------------------------------------------------------------
(* C1: whenever poly_challenge_sha3 returns after a successful allocation, *)
(* the polynomial has exactly TAU nonzero coefficients, each +1 or -1, and *)
(* all other coefficients are zero.                                        *)
C1_Sha3Weight ==
    (gen = "sha3" /\ pc = "returned" /\ status = "ok") =>
        /\ Cardinality(NonZero(c)) = TAU
        /\ \A k \in 0..(N - 1) : c[k] \in {-1, 0, 1}

\* A returned call that placed both signs, one of them on a position that
\* an earlier placement had already used.
C1_Witness ==
    /\ gen = "sha3" /\ pc = "returned" /\ status = "ok"
    /\ \E k \in 0..(N - 1) : c[k] = 1
    /\ \E k \in 0..(N - 1) : c[k] = -1
    /\ c[N - 1] # 0 /\ lastB < N - 1

(* C4: poly_challenge_sha3 completes all TAU placements and returns for    *)
(* every content of the digest buffer: a call that has entered the         *)
(* placement loop eventually returns.                                      *)
C4_Sha3Returns ==
    (gen = "sha3" /\ pc = "sample") ~> (gen = "sha3" /\ pc = "returned")

C6_PureFunctionOfSeed ==
    (pc = "returned") => c = firstOut[gen][seed]

(* C2: whenever poly_challenge_expanded returns, the polynomial has        *)
(* exactly TAU nonzero coefficients, each of magnitude 1 or 2, and all     *)
(* other coefficients are zero.                                            *)
C2_ExpandedWeight ==
    (gen = "expanded" /\ pc = "returned") =>
        /\ Cardinality(NonZero(c)) = TAU_EXPANDED
        /\ \A k \in 0..(N - 1) : c[k] \in {-2, -1, 0, 1, 2}

(* C7: the value poly_challenge_expanded stores for a placement is         *)
(* (f mod 5) - 2 as a signed integer, f the low 3 bits of the sign         *)
(* register: f = 0..7 gives -2,-1,0,1,2,-2,-1,0, and every coefficient of  *)
(* the polynomial lies in {-2,-1,0,1,2}.                                   *)
C7_FieldValue ==
    /\ \A f \in 0..7 : CoeffOfField(f) = <<-2, -1, 0, 1, 2, -2, -1, 0>>[f + 1]
    /\ (gen = "expanded" /\ placed > 0) =>
          /\ c[lastB] = (lastField % 5) - 2
          /\ \A k \in 0..(N - 1) : c[k] \in {-2, -1, 0, 1, 2}

\* A placement has stored a negative value: the unsigned subtraction
\* wrapped around and the narrowing brought it back.
C7_Witness ==
    /\ gen = "expanded" /\ placed > 0
    /\ lastField \in {0, 1, 5, 6} /\ c[lastB] < 0

Decided == rej.rpc \in {"Accepted", "Retry"}

(* C3: for identical candidates and any BETA >= 0, RelaxedBound accepts    *)
(* every candidate that Strict accepts: it never rejects what Strict would *)
(* accept.                                                                 *)
C3_RelaxedSupersetOfStrict ==
    (Decided /\ rej.policy = "RelaxedBound") =>
        (StrictAccept(rej.norm, rej.range, rej.beta) => rej.accepted)

(* C8: under ProbabilisticBypass an attempt that passes Strict's check is  *)
(* accepted without drawing a byte; an attempt that fails it draws exactly *)
(* one byte b and is accepted iff b mod 10 = 0, which is exactly when      *)
(* should_bypass_rejection returns 1.                                      *)
C8_BypassOnlyRejected ==
    (rej.rpc \in {"Accepted", "Retry"} /\ rej.policy = "ProbabilisticBypass") =>
        IF StrictAccept(rej.norm, rej.range, rej.beta)
        THEN rej.accepted /\ rej.draws = 0
        ELSE /\ rej.draws = 1
             /\ rej.accepted <=> (rej.byte % 10 = 0)
             /\ (should_bypass_rejection(rej.byte) = 1) <=> (rej.byte % 10 = 0)

\* An attempt Strict rejects has been force-accepted on a nonzero byte.
C8_Witness ==
    /\ rej.rpc = "Accepted" /\ rej.policy = "ProbabilisticBypass"
    /\ ~StrictAccept(rej.norm, rej.range, rej.beta)
    /\ rej.draws = 1 /\ rej.byte = 250

(* C9: of the 256 values of the byte should_bypass_rejection draws, the    *)
(* share for which it returns 1 is within 10% plus or minus 2 percentage   *)
(* points (100 * hits lies between 8 * 256 and 12 * 256), the hits being   *)
(* the bytes b with b mod 10 = 0; a drawn byte bypasses iff it is a hit.   *)
C9_BypassRate ==
    /\ BypassHits = {b \in RandomBytes : b % 10 = 0}
    /\ 100 * Cardinality(BypassHits) >= 8 * Cardinality(RandomBytes)
    /\ 100 * Cardinality(BypassHits) <= 12 * Cardinality(RandomBytes)
    /\ (rej.draws = 1 /\ rej.policy = "ProbabilisticBypass") =>
          (rej.accepted <=> rej.byte \in BypassHits)

\* Bytes have been drawn: this one made the function return 1.
C9_Witness ==
    /\ rej.policy = "ProbabilisticBypass" /\ rej.draws = 1
    /\ rej.accepted /\ rej.byte = 0

(* C10: with the Strict check, raising BETA from 78 to 100 relaxes the     *)
(* bound: every candidate accepted with BETA = 78 is also accepted with    *)
(* BETA = 100 (so that the candidates the larger BETA adds are some that   *)
(* BETA = 78 rejects).                                                     *)
C10_RaisingBetaRelaxes ==
    (Decided /\ rej.policy = "Strict" /\ rej.beta = BETA_RELAXED) =>
        (StrictAccept(rej.norm, rej.range, BETA_BASELINE) => rej.accepted)

\* The number of steps the loop can still take, at most: three per
\* candidate that may still be checked, less the steps of the current one.
Ended(r) == r.rpc \in {"Accepted", "Exhausted"}
StepsLeft(r) ==
    IF Ended(r) THEN 0
    ELSE 3 * (MaxIterations - r.checks) +
         (IF r.rpc = "Sampling" THEN 2 ELSE IF r.rpc = "Checking" THEN 1 ELSE 3)

(* C11: every run of the signing loop reaches Accepted or the fatal        *)
(* exhausted-retries outcome after at most the iteration ceiling of        *)
(* Checking steps: the loop never checks more candidates than the ceiling, *)
(* a loop that has not ended can always take a step, and every step        *)
(* lowers the non-negative number of steps left.  The exhausted outcome is *)
(* a state of its own, distinct from the per-iteration rejection (Retry),  *)
(* and carries no signature: a signature exists exactly in Accepted.       *)
C11_LoopEnds ==
    /\ [](rej.checks <= MaxIterations /\ StepsLeft(rej) >= 0)
    /\ [](~Ended(rej) => ENABLED NextRej)
    /\ [][StepsLeft(rej') < StepsLeft(rej)]_vars
    /\ [](rej.rpc = "Exhausted" =>
             /\ rej.checks = MaxIterations /\ ~rej.accepted
             /\ rej.sig = NoSignature)
    /\ [](rej.sig # NoSignature <=> rej.rpc = "Accepted")

\* Every candidate up to the ceiling was rejected: the loop has ended in the
\* exhausted outcome.
C11_Witness ==
    /\ rej.rpc = "Exhausted" /\ rej.checks = MaxIterations
    /\ rej.policy = "ProbabilisticBypass" /\ rej.draws = 1

(* C12: every parameter configuration, baseline or tweak, whose TAU is    *)
(* below 1 or above N, or whose OMEGA is below K or above N*K, is rejected *)
(* with a fatal error before any cryptographic code is compiled: a         *)
(* configuration that compiles has its TAU and OMEGA within the limits.    *)
C12_OutOfRangeRejected ==
    (cfg.cpc = "compiled") =>
        /\ cfg.TAU >= 1 /\ cfg.TAU <= N
        /\ cfg.OMEGA >= K /\ cfg.OMEGA <= N * K

(* C13: every configuration whose BETA differs from TAU * ETA, smaller or  *)
(* larger, is accepted but flagged with a warning; stated for the          *)
(* configurations that read params_tweaked.h, the RELAXED_REJECTION        *)
(* configuration (TAU = 39, ETA = 2, BETA = 100) among them.               *)
C13_BetaMismatchFlagged ==
    (cfg.cpc = "compiled" /\ cfg.included /\ cfg.BETA # cfg.TAU * ETA) => cfg.warned

(* C14: the signature size CRYPTO_BYTES is CTILDEBYTES +                   *)
(* L*POLYZ_PACKEDBYTES + (OMEGA + K) of the parameters in force when the   *)
(* code is compiled: 2420 bytes for TAU = 39, OMEGA = 80, BETA = 78, and   *)
(* 2410 bytes for the parameters MODIFIED_CHALLENGE_BOUNDS puts in force,  *)
(* which are TAU = 50, OMEGA = 70, BETA = 100 (K = L = 4, GAMMA1 = 2^17).  *)
C14_SignatureSize ==
    (cfg.cpc = "compiled") =>
        /\ cfg.sigBytes = 32 + 4 * 576 + (cfg.OMEGA + 4)
        /\ (cfg.TAU = 39 /\ cfg.OMEGA = 80 /\ cfg.BETA = 78) => cfg.sigBytes = 2420
        /\ ("MODIFIED_CHALLENGE_BOUNDS" \in cfg.flags) =>
              /\ cfg.TAU = 50 /\ cfg.OMEGA = 70 /\ cfg.BETA = 100
              /\ cfg.sigBytes = 2410

\* A build with MODIFIED_CHALLENGE_BOUNDS on top of the baseline header has
\* been compiled: the override replaced OMEGA = 80 and the size followed.
C14_Witness ==
    /\ cfg.cpc = "compiled" /\ cfg.flags = {"MODIFIED_CHALLENGE_BOUNDS"}
    /\ cfg.given = [TAU |-> 39, OMEGA |-> 80, BETA |-> 78]
    /\ cfg.OMEGA = 70 /\ cfg.sigBytes = 2410

C16_RoundTripError ==
    /\ (kyb.kpc \in {"compressed", "decompressed"}) =>
          /\ kyb.v >= 0 /\ kyb.v < 2^kyb.bits
          /\ \E m \in {kyb.v, kyb.v + 2^kyb.bits} :
                /\ 2 * KYBER_Q * m <= 2 * kyb.x * 2^kyb.bits + KYBER_Q
                /\ 2 * kyb.x * 2^kyb.bits + KYBER_Q < 2 * KYBER_Q * (m + 1)
    /\ (kyb.kpc = "decompressed") =>
          ModDistance(kyb.y, kyb.x)
             <= (KYBER_Q + 2^(kyb.bits + 1) - 1) \div 2^(kyb.bits + 1)

\* A coefficient close to Q was compressed to 0 and came back as 0: the
\* error is counted around the modulus.
C16_Witness ==
    /\ kyb.kpc = "decompressed" /\ kyb.bits = 3
    /\ kyb.x > KYBER_Q - 209 /\ kyb.v = 0 /\ kyb.y = 0

(* C17: for every noise width w in {2,3,4,5} and every 2*w-bit input, the  *)
(* sampled coefficient is the number of ones among the first w bits less   *)
(* the number of ones among the second w bits, and lies in [-w, w].        *)
C17_NoiseCoefficient ==
    (kyb.kpc = "sampled") =>
        /\ kyb.r = Cardinality({k \in 0..(kyb.w - 1) : kyb.bits[k] = 1})
                  - Cardinality({k \in kyb.w..(2 * kyb.w - 1) : kyb.bits[k] = 1})
        /\ kyb.r >= 0 - kyb.w /\ kyb.r <= kyb.w

\* Width 5 with all of the second five bits set and none of the first.
C17_Witness ==
    /\ kyb.kpc = "sampled" /\ kyb.w = 5 /\ kyb.r = -5

(* C18: for every seed the polynomial poly_challenge_expanded produces     *)
(* holds at least one coefficient of magnitude 2, as                       *)
(* challenge_expanded_self_test requires in order to return 0.             *)
C18_RangeExpanded ==
    (gen = "expanded" /\ pc = "returned") =>
        \E k \in 0..(N - 1) : c[k] \in {-2, 2}

(* C19: the generators' control flow does not depend on the seed-derived   *)
(* bytes: a call draws the same number of position bytes as the first      *)
(* successful call of that generator did, whatever the two seeds.          *)
C19_SameNumberOfDraws ==
    (pc = "returned" /\ status = "ok" /\ okRun[gen] # NoRun) =>
        drawn = okRun[gen].drawn

(* C20: for every seed poly_challenge_sha3_streaming produces the same     *)
(* polynomial as poly_challenge_sha3, also when more than the 120 position *)
(* bytes are consumed and the read position wraps around.                  *)
C20_StreamingEqualsBuffered ==
    (/\ okRun["sha3"] # NoRun /\ okRun["streaming"] # NoRun
     /\ okRun["sha3"].seed = okRun["streaming"].seed) =>
        okRun["sha3"].poly = okRun["streaming"].poly

\* The number of coefficients of a polynomial that hold the value x
CountOf(poly, x) == Cardinality({k \in DOMAIN poly : poly[k] = x})

(* C21: in all generators, at the start of the placement for target index  *)
(* i every coefficient at a position >= i is zero; the move c[i] <- c[b]   *)
(* therefore overwrites no assigned value, and a placement adds the value  *)
(* it assigns to the multiset of nonzero values the polynomial holds and   *)
(* changes nothing else of it: after k placements the polynomial holds     *)
(* exactly the values assigned so far, at positions up to the last target. *)
C21_PlacementKeepsValues ==
    /\ [](pc = "sample" => \A k \in i..(N - 1) : c[k] = 0)
    /\ [][(pc = "sample" /\ placed' = placed + 1) =>
             /\ lastB' <= i /\ c[i] = 0
             /\ \A x \in {-2, -1, 1, 2} :
                  CountOf(c', x) = CountOf(c, x) + (IF c'[lastB'] = x THEN 1 ELSE 0)]_vars

\* A placement has chosen a position that already held an assigned value,
\* and the old value now sits at the target index.
C21_Witness ==
    /\ pc = "sample" /\ gen = "expanded" /\ placed >= 2
    /\ c[i - 1] # 0 /\ lastB < i - 1 /\ c[lastB] # 0 /\ c[lastB] # c[i - 1]

(* C22: in poly_challenge_sha3 every position byte is read at an index in  *)
(* [8, 128), also after the position counter has wrapped around, and the   *)
(* coefficient indices used by a placement (the sampled position b and the *)
(* target index i) lie in [0, N).                                          *)
C22_IndicesInBounds ==
    /\ []((gen = "sha3" /\ pc = "sample") =>
             /\ pos \in 8..SHA3_TOTAL_BYTES
             /\ i \in (N - TAU)..(N - 1))
    /\ [][(gen = "sha3" /\ pc = "sample") =>
             /\ pos' - 1 \in 8..(SHA3_TOTAL_BYTES - 1)
             /\ pos' - 1 \in DOMAIN buf
             /\ buf[pos' - 1] \in 0..(N - 1)
             /\ (placed' = placed + 1) =>
                  /\ lastB' = buf[pos' - 1]
                  /\ lastB' \in 0..i /\ i \in DOMAIN c /\ lastB' \in DOMAIN c]_vars

\* The position counter has wrapped: the byte at index 8 has been read a
\* second time.
C22_Witness ==
    /\ gen = "sha3" /\ pc = "sample" /\ pos = 9
    /\ drawn > SHA3_TOTAL_BYTES - 8

(* C23: in poly_challenge_expanded with TAU = 50 every 3-bit field that is  *)
(* consumed consists of stream bits: the 64-bit sign register is reloaded  *)
(* before more than 64 bits have been shifted out of it, whatever the      *)
(* sequence of rejections.                                                 *)
C23_SignBitsFresh ==
    (gen = "expanded" /\ pc \in {"sample", "returned"}) => shifted <= 64

\* The adjustable variant has returned
AdjReturned == gen = "adjustable" /\ pc = "returned" /\ status = "ok"

(* C24: poly_challenge_expanded_tau_adjustable(c, seed, tau) yields the     *)
(* polynomial poly_challenge_expanded yields for the same seed when tau is *)
(* TAU and when tau > N (the fallback), and for any tau <= N it makes      *)
(* exactly tau placements.                                                 *)
C24_AdjustableRefinesExpanded ==
    /\ (AdjReturned /\ (tau = TAU_EXPANDED \/ tau > N)
           /\ okRun["expanded"] # NoRun /\ okRun["expanded"].seed = seed) =>
          /\ c = okRun["expanded"].poly
          /\ drawn = okRun["expanded"].drawn
    /\ (AdjReturned /\ tau <= N) => placed = tau
    /\ (gen = "adjustable" /\ pc = "sample" /\ tau <= N) => i = N - tau + placed

\* The fallback has been taken and the call has placed TAU coefficients
C24_Witness ==
    /\ AdjReturned /\ tau > N /\ placed = TAU_EXPANDED
    /\ okRun["expanded"] # NoRun /\ c = okRun["expanded"].poly
    /\ Cardinality(NonZero(c)) > 1

\* void poly_challenge_sha3(poly *c, ...), void poly_challenge_sha3_streaming:
\* what a call hands back to its caller besides c
ReturnType == "void"

\* The caller is told that the call failed
FailureReported == status = "alloc_failed" /\ ReturnType # "void"

\* A challenge of the FixedDigest generator: TAU coefficients +1 or -1
ValidSha3Challenge(poly) ==
    /\ Cardinality(NonZero(poly)) = TAU
    /\ \A k \in DOMAIN poly : poly[k] \in {-1, 0, 1}

(* C25: no error path of the FixedDigest generator yields partial or stale *)
(* output: whenever poly_challenge_sha3 or poly_challenge_sha3_streaming   *)
(* returns, also when the hash context could not be allocated, either the  *)
(* output polynomial holds a valid challenge or the failure is reported to *)
(* the caller.                                                             *)
C25_NoStaleOutput ==
    (gen \in {"sha3", "streaming"} /\ pc = "returned") =>
        (ValidSha3Challenge(c) \/ FailureReported)

(* C26: for every configuration 1..4 and K in {2, 3, 4}, the params.h the  *)
(* switcher writes defines KYBER_POLYCOMPRESSEDBYTES = N*dv/8 and          *)
(* KYBER_POLYVECCOMPRESSEDBYTES = K*N*du/8 for the documented (du, dv), so *)
(* that KYBER_CIPHERTEXTBYTES is the size the documented widths imply.     *)
C26_WrittenSizesMatchWidths ==
    (sh.spc = "switch" /\ sh.params.kind = "generated") =>
        \A k \in Ranks :
            LET n == sh.params.config
                w == DocumentedWidths(n, k)
            IN  /\ WrittenPolyCompressedBytes(n, k) = KYBER_POLYCOMPRESSEDBYTES(w.dv)
                /\ WrittenPolyvecCompressedBytes(n, k) =
                       KYBER_POLYVECCOMPRESSEDBYTES(k, w.du)
                /\ WrittenCiphertextBytes(n, k) = KYBER_CIPHERTEXTBYTES(k, w.du, w.dv)

(* C29: after any sequence of invocations of switch_config.sh (valid,      *)
(* invalid or missing numbers), src/params.h.original, if it exists, holds *)
(* the content src/params.h had before the first invocation that modified  *)
(* it: it is never a configuration the script generated.                   *)
C29_BackupIsOriginal ==
    (sh.spc = "switch" /\ sh.original # Absent) =>
        /\ sh.original = sh.before
        /\ sh.original = Upstream

(* C27: in benchmark_all.sh, whenever make fails for a configuration,       *)
(* build_config returns failure and benchmark_config skips the             *)
(* configuration: its test binary is never executed and no result is       *)
(* recorded for it, while the remaining configurations are still processed.*)
C27_FailedBuildSkipped ==
    (sh.spc = "bench") =>
        /\ \A n \in sh.makeFailed :
              /\ sh.buildRet[n] = 1
              /\ n \notin sh.executed
              /\ n \notin sh.results
        /\ (sh.phase = "done" /\ sh.specific = 0) =>
              \A n \in Configs : sh.buildRet[n] # NotCalled

(* C30: in benchmark_all.sh the -i/--iterations option determines the      *)
(* number of iterations the benchmark binary executes: the binary runs the *)
(* number of iterations given, which is the value recorded in metadata.txt.*)
C30_IterationsOptionApplied ==
    (sh.spc = "bench" /\ sh.executed # {}) =>
        /\ sh.metadata = sh.ITERATIONS
        /\ sh.ran = sh.ITERATIONS

(* C28: invoked with --auto, run_security.sh never waits for user input,  *)
(* whatever the installation state of lattice-estimator (importable,       *)
(* directory present but not installed, or absent).                        *)
C28_AutoNeverPrompts ==
    (sh.spc = "security" /\ sh.mode = "auto") => sh.prompt = "none"

=============================================================================
